---- MODULE Spec2Model ----
(***************************************************************************)
(* Model of MSMRD/integrators/MSMRDexitSampling.py: the hybrid integrator  *)
(* that switches a single particle between Brownian dynamics (BD) and a    *)
(* Markov state model (MSM).                                               *)
(*                                                                         *)
(* Arithmetic.  Positions are points of the integer grid, radii are        *)
(* integers in grid units and every comparison of norms is made on squared *)
(* norms (sqrt is monotone).  Angles are kept exactly as "angle codes":    *)
(* with NangularPartitions = 4 the sector borders are the multiples of     *)
(* pi/2, and a code c stands for                                           *)
(*     c = 2m    the angle m * angularIncrement exactly,                   *)
(*     c = 2m+1  the open interval (m, m+1) * angularIncrement.            *)
(* So angularIncrement is 2 codes, pi is NangularPartitions codes, and     *)
(* floor(theta / angularIncrement) is theta \div 2.  A uniform draw of     *)
(* [0,1) times an exact angle of L codes falls in the codes 0 .. L-1.      *)
(* Random draws are the inputs of the actions.                             *)
(***************************************************************************)
EXTENDS Integers, Sequences, FiniteSets

VARIABLES
    position,          \* p.position, the particle's continuous position:
                       \* the numerators of its two coordinates
    posDen,            \* the common denominator of position (1 on the grid)
    MSMactive,         \* self.MSMactive
    lastState,         \* self.lastState (Unset until the first active tick)
    state,             \* MSM.state
    exit,              \* MSM.exit
    centers,           \* MSM.centers, one grid point per near-center state
    pc,                \* "idle": between calls; "escape": inside the while
                       \* loop of exitMSM; "failed": an assertion failed
    internalPosition,  \* exitMSM's local internalPosition
    theta,             \* exitMSM's local theta, as an angle code
    nEscape,           \* history: passes of the while loop of exitMSM made
                       \* so far, counted up to MaxEscape
    tickRegime,        \* history: regime the last integrate() call started in
    nPropagate,        \* history: MSM.propagate() calls of that call
    nDiffusion,        \* history: propagateDiffusion calls of that call
    preState,          \* history: MSM.state just before the last propagate()
    displaced,         \* history: newPosition of the last propagateDiffusion
                       \* before the inversion, over the old denominator
    ret,               \* the last call when it was sample(): its argument and
                       \* the value it returned
    traj,              \* the trajectory handed to
                       \* compute_stationary_distribution: rows
                       \* <<time, x, y, state or -1>>
    out                \* the last call when it was above_threshold() or
                       \* compute_stationary_distribution(): its outcome

vars == <<position, posDen, MSMactive, lastState, state, exit, centers, pc,
          internalPosition, theta, tickRegime, nPropagate, nDiffusion,
          preState, displaced, nEscape, ret, traj, out>>

----------------------------------------------------------------------------
(* Configuration (constructor arguments) *)

radius == 6
entryRadius == 3
interactionRadius == 2
bathRadius == 4
NangularPartitions == 4
NCenters == 3
timestep == 2

\* float(2.*np.pi / NangularPartitions), in angle codes
angularIncrement == 2
\* np.pi, in angle codes
Pi == NangularPartitions

\* MSM.states: near-center states, then the inner and the outer bath ring
states == NCenters + 2 * NangularPartitions

\* MSM.MSMradius and MSM.lagtime
MSMradius == 2
lagtime == 2

\* value of lastState before its first assignment (the attribute is missing)
Unset == -1
\* last field of a continuum sample
Sentinel == -1

(* Bounds of the model *)
MaxDisp == 2
MaxStep == 1
MaxEscape == 2
MaxRows == 3
MaxThreshold == 2

----------------------------------------------------------------------------
(* Geometry *)

Origin == <<0, 0>>

NormSq(p) == p[1] * p[1] + p[2] * p[2]

Add(p, q) == <<p[1] + q[1], p[2] + q[2]>>

Sq(r) == r * r

\* the Gaussian increments dr the model draws
Disp == (-MaxDisp .. MaxDisp) \X (-MaxDisp .. MaxDisp)

\* grid points the launch point of exitMSM is drawn among
Grid == (-bathRadius .. bathRadius) \X (-bathRadius .. bathRadius)

\* np.arctan2(a, b) as an angle code in -3 .. 4 (zeros are +0.0)
Arctan2(a, b) ==
    CASE a = 0 /\ b >= 0 -> 0
      [] a > 0 /\ b > 0  -> 1
      [] a > 0 /\ b = 0  -> 2
      [] a > 0 /\ b < 0  -> 3
      [] a = 0 /\ b < 0  -> 4
      [] a < 0 /\ b < 0  -> -3
      [] a < 0 /\ b = 0  -> -2
      [] a < 0 /\ b > 0  -> -1

\* the angle codes of np.random.random() * len, len an exact angle
UniformCodes(len) ==
    IF len > 0 THEN 0 .. (len - 1)
    ELSE IF len = 0 THEN {0}
    ELSE (len + 1) .. 0

\* R * [cos(th), sin(th)] = pt: pt has squared radius Rsq and polar angle th
Polar(pt, Rsq, th) ==
    /\ NormSq(pt) = Rsq
    /\ Arctan2(pt[2], pt[1]) % (2 * Pi) = th % (2 * Pi)

----------------------------------------------------------------------------
(* The program state as one record, and the methods as functions on it *)

S == [position |-> position, MSMactive |-> MSMactive, lastState |-> lastState,
      state |-> state, exit |-> exit, centers |-> centers, pc |-> pc,
      internalPosition |-> internalPosition, theta |-> theta,
      tickRegime |-> tickRegime, nPropagate |-> nPropagate,
      nDiffusion |-> nDiffusion, preState |-> preState,
      posDen |-> posDen, displaced |-> displaced, nEscape |-> nEscape]

Commit(s) ==
    /\ position' = s.position
    /\ MSMactive' = s.MSMactive
    /\ lastState' = s.lastState
    /\ state' = s.state
    /\ exit' = s.exit
    /\ centers' = s.centers
    /\ pc' = s.pc
    /\ internalPosition' = s.internalPosition
    /\ theta' = s.theta
    /\ tickRegime' = s.tickRegime
    /\ nPropagate' = s.nPropagate
    /\ nDiffusion' = s.nDiffusion
    /\ preState' = s.preState
    /\ posDen' = s.posDen
    /\ displaced' = s.displaced
    /\ nEscape' = s.nEscape

\* MSM.propagate(): one step of the externally supplied chain; ns and ne are
\* the state and the exit flag it leaves
propagate(s, ns, ne) ==
    [s EXCEPT !.preState = s.state, !.state = ns, !.exit = ne,
              !.nPropagate = s.nPropagate + 1]

\* the inverted point newPosition * radius**2 / rNew**2 is a grid point
Representable(p) ==
    /\ (p[1] * Sq(radius)) % NormSq(p) = 0
    /\ (p[2] * Sq(radius)) % NormSq(p) = 0

Invert(p) ==
    <<(p[1] * Sq(radius)) \div NormSq(p), (p[2] * Sq(radius)) \div NormSq(p)>>

\* the draws dr of propagateDiffusion whose result is a grid point
StepDraws(s) ==
    {dr \in Disp : LET n == Add(s.position, dr)
                   IN  NormSq(n) >= Sq(radius) => Representable(n)}

Abs(x) == IF x < 0 THEN -x ELSE x

RECURSIVE GCD(_, _)
GCD(a, b) == IF b = 0 THEN a ELSE GCD(b, a % b)

\* the point num / den in lowest terms
Reduce(num, den) ==
    LET g == GCD(GCD(Abs(num[1]), Abs(num[2])), den)
    IN  [num |-> <<num[1] \div g, num[2] \div g>>, den |-> den \div g]

\* mutant of inversion: the factor is radius / rNew**2
inversionNoSquare(newPosition, d) ==
    Reduce(<<newPosition[1] * radius * d, newPosition[2] * radius * d>>,
           NormSq(newPosition))

\* newPosition * radius**2 / rNew**2 for the point newPosition / d, exactly:
\* rNew**2 is NormSq(newPosition) / d**2
inversion(newPosition, d) ==
    Reduce(<<newPosition[1] * Sq(radius) * d, newPosition[2] * Sq(radius) * d>>,
           NormSq(newPosition))

\* On the grid (posDen = 1) and for the draws of StepDraws the inverted point
\* is Invert(newPosition) with denominator 1.
propagateDiffusion(s, dr) ==
    LET d == s.posDen
        newPosition == Add(s.position, <<dr[1] * d, dr[2] * d>>)
        rNewSq == NormSq(newPosition)
        inv == inversion(newPosition, d)
    IN  IF rNewSq >= Sq(radius) * Sq(d)
        THEN [s EXCEPT !.position = inv.num, !.posDen = inv.den,
                       !.displaced = newPosition,
                       !.nDiffusion = s.nDiffusion + 1]
        ELSE [s EXCEPT !.position = newPosition,
                       !.displaced = newPosition,
                       !.nDiffusion = s.nDiffusion + 1]

DistSq(p, q) == Sq(p[1] - q[1]) + Sq(p[2] - q[2])

\* mutant of argmin: the scan keeps the last index holding the minimum
RECURSIVE ArgminLastFrom(_, _, _, _)
ArgminLastFrom(c, R, i, best) ==
    IF i >= NCenters THEN best
    ELSE ArgminLastFrom(c, R, i + 1,
                        IF DistSq(c[i], R) <= DistSq(c[best], R)
                        THEN i ELSE best)

argminLast(c, R) == ArgminLastFrom(c, R, 1, 0)

\* argmin as numpy scans it: the first index holding the minimum
RECURSIVE ArgminFrom(_, _, _, _)
ArgminFrom(c, R, i, best) ==
    IF i >= NCenters THEN best
    ELSE ArgminFrom(c, R, i + 1,
                    IF DistSq(c[i], R) < DistSq(c[best], R) THEN i ELSE best)

argmin(c, R) == ArgminFrom(c, R, 1, 0)

\* the entry state enterMSM computes for position R
entranceState(c, R) ==
    IF NormSq(R) < Sq(interactionRadius)
    THEN argmin(c, R)
    ELSE LET th == Arctan2(R[1], R[2]) + Pi
         IN  (th * NangularPartitions) \div (2 * Pi) + NCenters

\* mutant of insideEntry: the position is compared with interactionRadius
insideInteraction(s) ==
    NormSq(s.position) < Sq(interactionRadius) * Sq(s.posDen)

\* the entry test of integrate(): norm(p.position) < entryRadius
insideEntry(s) == NormSq(s.position) < Sq(entryRadius) * Sq(s.posDen)

\* mutant of enterMSM: the entry also advances the chain by one step
enterMSMPropagates(s) ==
    propagate([s EXCEPT !.state = entranceState(s.centers, s.position),
                        !.exit = FALSE,
                        !.MSMactive = TRUE],
              entranceState(s.centers, s.position), FALSE)

\* mutant of enterMSM: the exit flag is not cleared
enterMSMKeepsExit(s) ==
    [s EXCEPT !.state = entranceState(s.centers, s.position),
              !.MSMactive = TRUE]

enterMSM(s) ==
    [s EXCEPT !.state = entranceState(s.centers, s.position),
              !.exit = FALSE,
              !.MSMactive = TRUE]

\* mutant of exitAssertion: the assertion is not made
exitAssertionOff(s) == TRUE

\* assert(self.lastState >= self.NCenters)
exitAssertion(s) == s.lastState >= NCenters

\* exitMSM's locals, from exitState = lastState - NCenters
innerRing(exitState) == exitState < NangularPartitions

thetaL(exitState) ==
    IF innerRing(exitState)
    THEN exitState * angularIncrement
    ELSE (exitState - NangularPartitions) * angularIncrement

\* the factor np.random.random() is multiplied by when theta is drawn
thetaScale(exitState) ==
    IF innerRing(exitState)
    THEN thetaL(exitState) + angularIncrement
    ELSE angularIncrement

\* R**2 ranges over [RsqLow, RsqHigh)
RsqLow(exitState) ==
    IF innerRing(exitState) THEN Sq(interactionRadius) ELSE Sq(entryRadius)

RsqHigh(exitState) ==
    IF innerRing(exitState) THEN Sq(entryRadius) ELSE Sq(bathRadius)

\* the draws (w, pt) of exitMSM for a value of lastState: w the codes of
\* random() * thetaScale, pt the launch point R * [cos(theta), sin(theta)]
\* of a radial draw
LaunchDrawsOf(last) ==
    LET exitState == last - NCenters
    IN  {d \in UniformCodes(thetaScale(exitState)) \X Grid :
            /\ NormSq(d[2]) >= RsqLow(exitState)
            /\ NormSq(d[2]) < RsqHigh(exitState)
            /\ Polar(d[2], NormSq(d[2]), d[1] + thetaL(exitState))}

LaunchTable == [last \in Unset .. (states - 1) |-> LaunchDrawsOf(last)]

LaunchDraws(s) == LaunchTable[s.lastState]

\* mutant of escaped: the loop compares with entryRadius
escapedEntry(newPosition) == NormSq(newPosition) >= Sq(entryRadius)

\* the loop test of exitMSM, negated: newPosition ends the while loop
escaped(newPosition) == NormSq(newPosition) >= Sq(bathRadius)

\* exitMSM up to the first test of its while loop (newPosition = zeros)
exitMSM(s, w, pt) ==
    LET exitState == s.lastState - NCenters
        launched == [s EXCEPT !.theta = w + thetaL(exitState),
                              !.internalPosition = pt]
    IN  IF escaped(Origin)
        THEN [s EXCEPT !.position = Origin, !.MSMactive = FALSE]
        ELSE [launched EXCEPT !.pc = "escape", !.nEscape = 0]

\* one pass of the while loop of exitMSM and what follows it
escapeStep(s, dr) ==
    LET newPosition == Add(s.internalPosition, dr)
    IN  IF escaped(newPosition)
        THEN [s EXCEPT !.position = newPosition, !.MSMactive = FALSE,
                       !.pc = "idle", !.internalPosition = Origin,
                       !.theta = 0, !.nEscape = 0]
        ELSE [s EXCEPT !.nEscape = IF s.nEscape < MaxEscape
                                   THEN s.nEscape + 1 ELSE MaxEscape]

\* mutant of msmDriver: lastState is saved after propagate()
msmDriverLate(s, ns, ne) ==
    LET after == propagate(s, ns, ne)
    IN  [after EXCEPT !.lastState = after.state]

\* integrate(), active branch up to the test of MSM.exit
msmDriver(s, ns, ne) ==
    propagate([s EXCEPT !.lastState = s.state], ns, ne)

\* mutant of exitSignalled: every active tick goes on to exitMSM
exitSignalledAlways(s) == TRUE

\* integrate(), active branch: the test of MSM.exit after propagate()
exitSignalled(s) == s.exit

\* mutant of sample: the particle's coordinates are returned in both modes
sampleCoords(s, step) ==
    [st |-> s,
     val |-> <<timestep * step, s.position[1], s.position[2],
               IF s.MSMactive THEN s.state ELSE Sentinel>>]

\* sample(step): the state it leaves and the value it returns
sample(s, step) ==
    [st |-> s,
     val |-> IF s.MSMactive
             THEN <<timestep * step, 0, 0, s.state>>
             ELSE <<timestep * step, s.position[1], s.position[2], Sentinel>>]

-----------------------------------------------------------------------------
(* above_threshold and compute_stationary_distribution *)

\* above_threshold(threshold): the value returned, or an IndexError when
\* MSM.centers, which holds NCenters vectors, is indexed by a state that is
\* not one of 0 .. NCenters - 1
above_threshold(s, threshold) ==
    IF s.MSMactive
    THEN IF s.state \in DOMAIN s.centers
         THEN [kind |-> "returned",
               val |-> NormSq(s.centers[s.state]) > Sq(threshold)]
         ELSE [kind |-> "IndexError"]
    ELSE [kind |-> "returned", val |-> TRUE]

\* the NumPy behaviours the truth test of line 104 depends on
Builds == {"legacy", "mid", "strict"}

\* rows of traj whose state column is -1, in trajectory order
BDtraj(tr) == SelectSeq(tr, LAMBDA row : row[4] = Sentinel)

\* columns 1:3 of the continuum rows
drOf(tr) ==
    [k \in 1 .. Len(BDtraj(tr)) |-> <<BDtraj(tr)[k][2], BDtraj(tr)[k][3]>>]

\* the continuum points with distance < MSMradius, in trajectory order
transitionPoints(tr) ==
    SelectSeq(drOf(tr), LAMBDA pt : NormSq(pt) < Sq(MSMradius))

\* `transitionRegion != []` used as a condition, for a transitionRegion of
\* n indices.  For n <= 1 the comparison broadcasts to an empty array,
\* whose truth value is False (an error from NumPy 2.2 on); for n >= 2 the
\* shapes do not broadcast and the comparison is the scalar True (an error
\* from NumPy 1.25 on).
notEmptyList(n, build) ==
    IF n <= 1
    THEN IF build = "strict" THEN "ValueError" ELSE "False"
    ELSE IF build = "legacy" THEN "True" ELSE "ValueError"

\* MSM.allocateStates(points): each point goes to the state of its nearest
\* centre
allocateStates(c, points) ==
    [k \in 1 .. Len(points) |-> argmin(c, points[k])]

\* np.where(column == i)[0].size
sizeWhere(column, i) == Cardinality({k \in DOMAIN column : column[k] = i})

\* the state column read from the second row on
stateColumnTail(tr) == [k \in 2 .. Len(tr) |-> tr[k][4]]

\* traj[:,3]
stateColumn(tr) == [k \in 1 .. Len(tr) |-> tr[k][4]]

RECURSIVE SumTo(_, _)
SumTo(v, i) == IF i < 0 THEN 0 ELSE v[i] + SumTo(v, i - 1)

\* counts.sum()
Sum(v) == SumTo(v, states - 1)

\* compute_stationary_distribution(traj) for MSM.centers c: the vector
\* returned is num / den; a zero counts.sum() makes every entry 0.0 / 0.0,
\* which NumPy evaluates to nan with a RuntimeWarning
compute_stationary_distribution(c, tr, build) ==
    LET points == transitionPoints(tr)
        test == notEmptyList(Len(points), build)
        clusters == IF test = "True" THEN allocateStates(c, points) ELSE <<>>
        counts == [i \in 0 .. (states - 1) |->
                      sizeWhere(stateColumn(tr), i) * lagtime
                      + sizeWhere(clusters, i)]
        calls == IF test = "True" THEN 1 ELSE 0
    IN  IF test = "ValueError"
        THEN [call |-> "compute_stationary_distribution", build |-> build,
              kind |-> "ValueError", calls |-> 0]
        ELSE IF Sum(counts) = 0
        THEN [call |-> "compute_stationary_distribution", build |-> build,
              kind |-> "nan", calls |-> calls]
        ELSE [call |-> "compute_stationary_distribution", build |-> build,
              kind |-> "vector", calls |-> calls,
              num |-> counts, den |-> Sum(counts)]

----------------------------------------------------------------------------
(* Initial states: the integrator after __init__ *)

NoRet == [step |-> -1, val |-> <<>>]

NoOut == [call |-> "none"]

InitPositions == {<<5, 0>>, <<0, -4>>}

\* MSM.centers of the main specification
Centers0 ==
    [i \in 0 .. (NCenters - 1) |->
        IF i = 0 THEN <<1, 0>> ELSE IF i = 1 THEN <<-1, 0>> ELSE <<0, 1>>]

\* the centre sets and start positions of the entry specification
CenterPoints == {<<1, 0>>, <<-1, 0>>, <<0, 1>>}

CenterSets == [0 .. (NCenters - 1) -> CenterPoints]

Disc == {p \in (-radius .. radius) \X (-radius .. radius) :
            NormSq(p) < Sq(radius)}

Init ==
    /\ position \in InitPositions
    /\ MSMactive = FALSE
    /\ lastState = Unset
    /\ state = 0
    /\ exit \in BOOLEAN
    /\ centers = Centers0
    /\ pc = "idle"
    /\ internalPosition = Origin
    /\ theta = 0
    /\ tickRegime = "none"
    /\ nPropagate = 0
    /\ nDiffusion = 0
    /\ preState = Unset
    /\ posDen = 1
    /\ displaced = Origin
    /\ nEscape = 0
    /\ ret = NoRet
    /\ traj = <<>>
    /\ out = NoOut

----------------------------------------------------------------------------
(* Actions *)

\* the state integrate() starts from: the counters of the call are reset
Begin(regime) ==
    [S EXCEPT !.tickRegime = regime, !.nPropagate = 0, !.nDiffusion = 0,
              !.displaced = Origin]

\* integrate() with MSMactive true
IntegrateMSM ==
    /\ pc = "idle"
    /\ MSMactive
    /\ ret' = NoRet
    /\ out' = NoOut
    /\ traj' = traj
    /\ \E ns \in 0 .. (states - 1), ne \in BOOLEAN :
          LET s == msmDriver(Begin("msm"), ns, ne)
          IN  IF exitSignalled(s)
              THEN IF exitAssertion(s)
                   THEN \E d \in LaunchDraws(s) : Commit(exitMSM(s, d[1], d[2]))
                   ELSE Commit([s EXCEPT !.pc = "failed"])
              ELSE Commit(s)

\* integrate() with MSMactive false; dr is drawn from StepDraws when onGrid,
\* from all of Disp otherwise
IntegrateBDWith(onGrid) ==
    /\ pc = "idle"
    /\ ~MSMactive
    /\ ret' = NoRet
    /\ out' = NoOut
    /\ traj' = traj
    /\ \E dr \in (IF onGrid THEN StepDraws(S) ELSE Disp) :
          LET s == propagateDiffusion(Begin("bd"), dr)
          IN  IF insideEntry(s)
              THEN Commit(enterMSM(s))
              ELSE Commit(s)

IntegrateBD == IntegrateBDWith(TRUE)

\* one pass of the while loop of exitMSM
EscapeStep ==
    /\ pc = "escape"
    /\ ret' = NoRet
    /\ out' = NoOut
    /\ traj' = traj
    /\ \E dr \in Disp : Commit(escapeStep(S, dr))

\* sample(step)
Sample ==
    /\ pc = "idle"
    /\ \E step \in 0 .. MaxStep :
          LET r == sample(S, step)
          IN  /\ Commit(r.st)
              /\ ret' = [step |-> step, val |-> r.val]
              /\ out' = NoOut
              /\ traj' = traj

Next == IntegrateMSM \/ IntegrateBD \/ EscapeStep \/ Sample

Spec == Init /\ [][Next]_vars

\* The entry discretizer alone: the integrator is constructed on any particle
\* of the disc and any centre set, and takes BD ticks
InitEntry ==
    /\ position \in Disc
    /\ MSMactive = FALSE
    /\ lastState = Unset
    /\ state = 0
    /\ exit \in BOOLEAN
    /\ centers \in CenterSets
    /\ pc = "idle"
    /\ internalPosition = Origin
    /\ theta = 0
    /\ tickRegime = "none"
    /\ nPropagate = 0
    /\ nDiffusion = 0
    /\ preState = Unset
    /\ posDen = 1
    /\ displaced = Origin
    /\ nEscape = 0
    /\ ret = NoRet
    /\ traj = <<>>
    /\ out = NoOut

NextEntry == IntegrateBD

SpecEntry == InitEntry /\ [][NextEntry]_vars

\* The Brownian stepper alone: the first tick of an integrator constructed on
\* any particle of the disc, for every increment of Disp
InitStep ==
    /\ position \in Disc
    /\ MSMactive = FALSE
    /\ lastState = Unset
    /\ state = 0
    /\ exit = FALSE
    /\ centers = Centers0
    /\ pc = "idle"
    /\ internalPosition = Origin
    /\ theta = 0
    /\ tickRegime = "none"
    /\ nPropagate = 0
    /\ nDiffusion = 0
    /\ preState = Unset
    /\ posDen = 1
    /\ displaced = Origin
    /\ nEscape = 0
    /\ ret = NoRet
    /\ traj = <<>>
    /\ out = NoOut

FirstStep == tickRegime = "none" /\ IntegrateBDWith(FALSE)

NextStep == FirstStep

SpecStep == InitStep /\ [][NextStep]_vars

\* above_threshold(threshold)
AboveThreshold ==
    /\ pc = "idle"
    /\ \E threshold \in 0 .. MaxThreshold :
          out' = [call |-> "above_threshold", threshold |-> threshold,
                  res |-> above_threshold(S, threshold)]
    /\ UNCHANGED <<position, posDen, MSMactive, lastState, state, exit,
                   centers, pc, internalPosition, theta, tickRegime,
                   nPropagate, nDiffusion, preState, displaced, nEscape,
                   ret, traj>>

NextThreshold == IntegrateBD \/ AboveThreshold

SpecThreshold == Init /\ [][NextThreshold]_vars

\* rows as sample() returns them: continuum rows inside and outside
\* MSMradius, rows of a centre state and of an angular state
Rows == {<<0, 1, 0, Sentinel>>, <<timestep, -1, 0, Sentinel>>,
         <<0, 5, 0, Sentinel>>, <<0, 0, 0, 0>>, <<timestep, 0, 0, NCenters>>}

RECURSIVE SeqsUpTo(_)
SeqsUpTo(n) ==
    IF n = 0 THEN {<<>>}
    ELSE SeqsUpTo(n - 1) \cup [1 .. n -> Rows]

Trajectories == SeqsUpTo(MaxRows)

InitStat ==
    /\ position = <<5, 0>>
    /\ posDen = 1
    /\ MSMactive = FALSE
    /\ lastState = Unset
    /\ state = 0
    /\ exit = FALSE
    /\ centers = Centers0
    /\ pc = "idle"
    /\ internalPosition = Origin
    /\ theta = 0
    /\ tickRegime = "none"
    /\ nPropagate = 0
    /\ nDiffusion = 0
    /\ preState = Unset
    /\ displaced = Origin
    /\ nEscape = 0
    /\ ret = NoRet
    /\ traj \in Trajectories
    /\ out = NoOut

\* compute_stationary_distribution(traj)
ComputeStationary ==
    /\ pc = "idle"
    /\ \E build \in Builds :
          out' = compute_stationary_distribution(centers, traj, build)
    /\ UNCHANGED <<position, posDen, MSMactive, lastState, state, exit,
                   centers, pc, internalPosition, theta, tickRegime,
                   nPropagate, nDiffusion, preState, displaced, nEscape,
                   ret, traj>>

NextStat == ComputeStationary

SpecStat == InitStat /\ [][NextStat]_vars

----------------------------------------------------------------------------
(* Properties *)

\* a step that is a call of integrate() (sample() leaves ret # NoRet,
\* above_threshold() and compute_stationary_distribution() out # NoOut)
IntegrateStep == pc = "idle" /\ ret' = NoRet /\ out' = NoOut

\* exitMSM was called by the last integrate() and has returned
ExitDone == tickRegime = "msm" /\ exit /\ pc = "idle"

\* the last integrate() entered the MSM; position is the entry position and
\* state the entry state
EntryDone == tickRegime = "bd" /\ MSMactive /\ pc = "idle"

\* C1: every call of integrate() runs exactly one regime, decided by
\* MSMactive at its start: active, it calls MSM.propagate() once and takes no
\* propagateDiffusion step; inactive, it takes one propagateDiffusion step and
\* does not call MSM.propagate(); the escape loop changes neither count.
C1_OneRegimePerTick ==
    [][/\ IntegrateStep =>
            IF MSMactive
            THEN nPropagate' = 1 /\ nDiffusion' = 0
            ELSE nPropagate' = 0 /\ nDiffusion' = 1
       /\ pc = "escape" => UNCHANGED <<nPropagate, nDiffusion>>]_vars

\* an exit tick has completed: one propagate(), no diffusion step
C1_Witness ==
    ExitDone /\ ~MSMactive /\ nPropagate = 1 /\ nDiffusion = 0

\* C2: whenever exitMSM has been called by integrate(), lastState is the
\* value MSM.state had just before the propagate() of that tick, and it is
\* set.
C2_LastStateIsPreState ==
    (tickRegime = "msm" /\ exit) => (lastState = preState /\ lastState # Unset)

\* exitMSM runs and propagate() has moved MSM.state away from lastState
C2_Witness == pc = "escape" /\ state # lastState

\* C3: an active tick whose propagate() sets exit from a near-center state
\* ends in the assertion failure with the position unchanged and MSMactive
\* true; exitMSM goes on (escape loop, or MSMactive cleared) only with
\* lastState >= NCenters.
C3_ExitFromCenterIsFatal ==
    [][/\ (IntegrateStep /\ MSMactive /\ exit' /\ state < NCenters) =>
            (pc' = "failed" /\ position' = position /\ MSMactive')
       /\ (pc' = "escape" \/ (MSMactive /\ ~MSMactive')) =>
            lastState' >= NCenters]_vars

C3_Witness == pc = "failed" /\ lastState < NCenters /\ MSMactive

sectorOf(last) ==
    IF last - NCenters < NangularPartitions
    THEN last - NCenters
    ELSE last - NCenters - NangularPartitions

\* polar angle of a point as a code in 0 .. 2*Pi - 1
polarAngle(pt) == Arctan2(pt[2], pt[1]) % (2 * Pi)

\* C5: the launch point of exitMSM lies in the region of lastState: its
\* polar angle in [k, k+1) * angularIncrement for the sector index k, its
\* radius in [interactionRadius, entryRadius] (inner ring) or in
\* [entryRadius, bathRadius] (outer ring).
C5_LaunchInRegion ==
    pc = "escape" =>
        LET k == sectorOf(lastState)
            a == polarAngle(internalPosition)
            r == NormSq(internalPosition)
        IN  /\ k * angularIncrement <= a
            /\ a < (k + 1) * angularIncrement
            /\ IF lastState - NCenters < NangularPartitions
               THEN Sq(interactionRadius) <= r /\ r <= Sq(entryRadius)
               ELSE Sq(entryRadius) <= r /\ r <= Sq(bathRadius)

\* C6: the entry discretizer maps every launch point of an inner-ring state
\* s with radius in [interactionRadius, entryRadius) back to s.
C6_ExitReversesEntry ==
    (/\ pc = "escape"
     /\ lastState < NCenters + NangularPartitions
     /\ NormSq(internalPosition) >= Sq(interactionRadius)
     /\ NormSq(internalPosition) < Sq(entryRadius))
        => entranceState(centers, internalPosition) = lastState

\* C7: an entry at a radius in [interactionRadius, entryRadius) assigns a
\* bath state of [NCenters, NCenters + NangularPartitions).
C7_AngularEntryInRange ==
    (EntryDone /\ NormSq(position) >= Sq(interactionRadius)) =>
        (NCenters <= state /\ state < NCenters + NangularPartitions)

\* C8: MSMactive changes from false to true exactly in the integrate() calls
\* that start inactive and whose step leaves the particle inside entryRadius;
\* that call sets MSM.state to the entry index and clears MSM.exit, so that
\* no active integrator waits between calls with the exit flag set.
C8_EntryIsTheOnlyWayIn ==
    /\ [][/\ (~MSMactive /\ MSMactive') <=>
               (IntegrateStep /\ ~MSMactive
                   /\ NormSq(position') < Sq(entryRadius))
          /\ (~MSMactive /\ MSMactive') =>
               (/\ state' = entranceState(centers, position')
                /\ ~exit')]_vars
    /\ [](MSMactive /\ pc = "idle" => ~exit)

\* a re-entry after an exit: the flag the exit left set has been cleared
C8_Witness == EntryDone /\ lastState # Unset /\ ~exit

\* C9: a near-center entry chooses a center at minimal distance from the
\* entry position, the lowest index among those at that distance.
C9_NearestCenter ==
    (EntryDone /\ NormSq(position) < Sq(interactionRadius)) =>
        \A j \in 0 .. (NCenters - 1) :
            /\ DistSq(centers[state], position) <= DistSq(centers[j], position)
            /\ DistSq(centers[j], position) = DistSq(centers[state], position)
                  => state <= j

\* a near-center entry with two centers at the minimal distance
C9_Witness ==
    /\ EntryDone
    /\ NormSq(position) < Sq(interactionRadius)
    /\ \E j \in 0 .. (NCenters - 1) :
          /\ j # state
          /\ centers[j] # centers[state]
          /\ DistSq(centers[j], position) = DistSq(centers[state], position)

\* C10: sample(step) changes nothing and returns time = timestep * step,
\* with (x, y, -1) of the particle exactly when MSMactive is false and
\* (0, 0, MSM.state), MSM.state >= 0, exactly when MSMactive is true.
C10_SampleIsPureRead ==
    [][ret' # NoRet =>
          /\ UNCHANGED <<position, MSMactive, lastState, state, exit, centers,
                         pc, internalPosition, theta>>
          /\ Len(ret'.val) = 4
          /\ ret'.val[1] = timestep * ret'.step
          /\ ~MSMactive =>
                ret'.val = <<ret'.val[1], position[1], position[2], -1>>
          /\ MSMactive =>
                (state >= 0 /\ ret'.val = <<ret'.val[1], 0, 0, state>>)]_vars

\* an MSM sample taken at a step > 0 while the particle is off the origin
C10_Witness ==
    /\ ret # NoRet
    /\ ret.step > 0
    /\ MSMactive
    /\ position # Origin
    /\ ret.val = <<timestep * ret.step, 0, 0, state>>

\* C11: propagateDiffusion leaves the particle at radius <= radius: a
\* displaced point of radius rNew >= radius is replaced by itself scaled by
\* radius^2 / rNew^2, a point on the same ray from the origin at radius
\* radius^2 / rNew; a displaced point of radius rNew < radius is kept.
C11_InversionConfines ==
    (tickRegime = "bd") =>
        /\ NormSq(position) <= Sq(radius) * Sq(posDen)
        /\ IF NormSq(displaced) >= Sq(radius)
           THEN /\ position[1] * NormSq(displaced)
                     = displaced[1] * Sq(radius) * posDen
                /\ position[2] * NormSq(displaced)
                     = displaced[2] * Sq(radius) * posDen
                /\ position[1] * displaced[2] = position[2] * displaced[1]
                /\ position[1] * displaced[1] + position[2] * displaced[2] > 0
                /\ NormSq(position) * NormSq(displaced)
                     = Sq(radius) * Sq(radius) * Sq(posDen)
           ELSE position = displaced /\ posDen = 1

\* a step beyond the boundary whose inverted point is off the grid
C11_Witness ==
    /\ tickRegime = "bd"
    /\ NormSq(displaced) > Sq(radius)
    /\ posDen > 1

\* C12: the escape loop of exitMSM has a hard iteration ceiling: it is never
\* still looping after MaxEscape passes (by then it has placed the particle
\* or reported a failure), and a particle it places is at radius at least
\* bathRadius.
C12_EscapeLoopHasCeiling ==
    /\ pc = "escape" => nEscape < MaxEscape
    /\ ExitDone => NormSq(position) >= Sq(bathRadius)

\* a call of compute_stationary_distribution(traj) has returned or raised
StationaryDone == out.call = "compute_stationary_distribution"

\* the continuum point of a trajectory row
pointOf(row) == <<row[2], row[3]>>

\* the observations of state i in traj: lagtime for each row of state i, one
\* for each continuum row inside MSMradius that allocateStates gives to i
observations(i) ==
    lagtime * Cardinality({k \in 1 .. Len(traj) : traj[k][4] = i})
    + Cardinality({k \in 1 .. Len(traj) :
                      /\ traj[k][4] = Sentinel
                      /\ NormSq(pointOf(traj[k])) < Sq(MSMradius)
                      /\ allocateStates(centers, <<pointOf(traj[k])>>)[1] = i})

allObservations == Sum([i \in 0 .. (states - 1) |-> observations(i)])

\* C13: for a trajectory with a non-zero total count,
\* compute_stationary_distribution returns a vector of MSM.states entries
\* that sum to 1, entry i being the observations of state i (lagtime for
\* each discrete row of state i, one for each continuum row within MSMradius
\* allocated to i) over the total.
C13_StationaryDistribution ==
    (StationaryDone /\ allObservations # 0) =>
        /\ out.kind = "vector"
        /\ DOMAIN out.num = 0 .. (states - 1)
        /\ Sum(out.num) = out.den
        /\ \A i \in 0 .. (states - 1) :
              out.num[i] * allObservations = observations(i) * out.den

\* the orders in which n rows can be arranged
Orders(n) == {f \in [1 .. n -> 1 .. n] :
                 \A a, b \in 1 .. n : f[a] = f[b] => a = b}

\* C14: the outcome of compute_stationary_distribution is the same for every
\* rearrangement of the rows of traj.
C14_RowOrderInvariant ==
    StationaryDone =>
        \A f \in Orders(Len(traj)) :
            compute_stationary_distribution(
                centers, [k \in 1 .. Len(traj) |-> traj[f[k]]], out.build) = out

C14_Witness ==
    /\ StationaryDone
    /\ out.kind = "vector"
    /\ Len(traj) >= 2
    /\ traj[1] # traj[2]

\* C15: compute_stationary_distribution never returns the outcome of a
\* division by zero: it returns a vector or raises; and when no continuum
\* row lies inside MSMradius, allocateStates is not called.
C15_DegenerateInputDefined ==
    StationaryDone =>
        /\ out.kind # "nan"
        /\ (Len(transitionPoints(traj)) = 0) => (out.calls = 0)

\* C16: after every completed tick, a particle in continuum mode has
\* radius >= entryRadius (the start positions have radius >= entryRadius).
C16_ContinuumOutsideEntry ==
    (pc = "idle" /\ ~MSMactive) =>
        NormSq(position) >= Sq(entryRadius) * Sq(posDen)

C16_Witness ==
    /\ pc = "idle"
    /\ tickRegime = "bd"
    /\ ~MSMactive
    /\ NormSq(position) = Sq(entryRadius) * Sq(posDen)

\* C17: after every completed tick, exit ticks included, a particle in
\* continuum mode has radius <= radius.
C17_OuterConfinement ==
    (pc = "idle" /\ ~MSMactive) =>
        NormSq(position) <= Sq(radius) * Sq(posDen)

\* C18: an active tick after whose propagate() MSM.exit is false is complete
\* with the position unchanged and MSMactive true; an inactive tick whose
\* step ends at radius >= entryRadius leaves MSM.state, MSM.exit and
\* lastState unchanged and MSMactive false.
C18_RegimeFrame ==
    [][/\ (IntegrateStep /\ MSMactive /\ ~exit') =>
              /\ pc' = "idle"
              /\ position' = position
              /\ posDen' = posDen
              /\ MSMactive'
       /\ (IntegrateStep /\ ~MSMactive
           /\ NormSq(position') >= Sq(entryRadius) * Sq(posDen')) =>
              /\ state' = state
              /\ exit' = exit
              /\ lastState' = lastState
              /\ ~MSMactive']_vars

C18_Witness ==
    /\ pc = "idle"
    /\ tickRegime = "msm"
    /\ MSMactive
    /\ ~exit
    /\ state # preState

\* C19: above_threshold(threshold) returns in every reachable state: True
\* when MSMactive is false, and whether the norm of MSM.centers[MSM.state]
\* exceeds threshold when MSMactive is true, angular bath states included.
C19_AboveThresholdDefined ==
    (out.call = "above_threshold") =>
        /\ out.res.kind = "returned"
        /\ out.res.val = (IF MSMactive
                          THEN NormSq(centers[state]) > Sq(out.threshold)
                          ELSE TRUE)

====
